---- MODULE Spec2Model ----
(***************************************************************************)
(* Model of src/structures/BaseGuildTextChannel.js: the per-channel        *)
(* settings cache (fetchIgnored / setIgnored) and the webhook pool         *)
(* (fetchWebhooks / createWebhook / createWebhooks / getWebhook) of one    *)
(* channel object, called by asynchronous callers.  Every `await` on a     *)
(* remote call is a suspension point: the call is issued by one action and *)
(* its continuation runs in a later action.                                *)
(***************************************************************************)
EXTENDS Naturals, Sequences, FiniteSets

VARIABLES
    settings,       \* this.settings = { ignored, cache }
    remoteIgnored,  \* the remote ignore record of this channel
    sproc,          \* settings callers: position and locals of each async call
    slast,          \* summary of the most recently completed settings call
    slast2,         \* summary of the settings call completed before slast
    settled,        \* some fetchIgnored or setIgnored has completed successfully
    orderly,        \* every settings call so far ran alone and succeeded
    remote,         \* the remote service's webhooks of this channel, in list order
    webhooksCache,  \* this.client.webhooksCache, in insertion order
    lastWebhook,    \* this.lastWebhook
    hproc,          \* webhook callers: position and locals of each async call
    hlast,          \* summary of the most recently completed webhook call
    hlast2,         \* summary of the webhook call completed before hlast
    poolDone        \* some createWebhooks has completed successfully

svars == <<settings, remoteIgnored, sproc, slast, slast2, settled, orderly>>
hvars == <<remote, webhooksCache, lastWebhook, hproc, hlast, hlast2, poolDone>>
vars == <<settings, remoteIgnored, sproc, slast, slast2, settled, orderly,
          remote, webhooksCache, lastWebhook, hproc, hlast, hlast2, poolDone>>

\* The number of asynchronous callers of fetchIgnored / setIgnored that may
\* have a call in flight at the same time.
MaxSettingsCallers == 2

SCallers == 1..MaxSettingsCallers

\* createWebhook is called on its own at most this many times.
MaxDirectCreates == 1

\* The asynchronous callers of createWebhooks / getWebhook that may have a
\* call in flight at the same time.
HCallers == {"p", "q"}

(***************************************************************************)
(* Settings cache                                                          *)
(***************************************************************************)

\* What the remote holds for the channel: no record, or a record whose
\* ignored field is true or false.
RemoteIgnoredValues == {"absent", "true", "false"}

\* constructor: this.settings = { ignored: false, cache: false }
InitialSettings == [ignored |-> FALSE, cache |-> FALSE]

\* !!dt.data?.ignored
Truthy(resp) == resp = "true"

\* the left operand test of `x ?? y`: x is null or undefined
IsNullish(x) == x \notin BOOLEAN

SIdle == [pc |-> "idle", op |-> "none", v |-> FALSE, reads |-> 0, creates |-> 0,
          deletes |-> 0, solo |-> TRUE, pre |-> InitialSettings, seen |-> "unread"]

SNoCall == [op |-> "none", v |-> FALSE, ok |-> TRUE, reads |-> 0, creates |-> 0,
            deletes |-> 0, solo |-> TRUE, pre |-> InitialSettings,
            post |-> InitialSettings, seen |-> "unread", ret |-> "none"]

\* A caller starting a call overlaps every call that is in flight.
SOverlap(p, f) ==
    [q \in SCallers |-> IF q # p /\ f[q].pc # "idle" THEN [f[q] EXCEPT !.solo = FALSE]
                     ELSE f[q]]

SAlone(p) == \A q \in SCallers \ {p} : sproc[q].pc = "idle"

\* The summary of a call of caller state c that ends now with the given
\* outcome, return value and settings.
SSummary(c, ok, ret, post) ==
    [op |-> c.op, v |-> c.v, ok |-> ok, reads |-> c.reads, creates |-> c.creates,
     deletes |-> c.deletes, solo |-> c.solo, pre |-> c.pre, post |-> post,
     seen |-> c.seen, ret |-> ret]

\* A fetchIgnored that marks the cache loaded but keeps the cached value.
FetchedSettingsKeep(resp) == [ignored |-> settings.ignored, cache |-> TRUE]

\* A fetchIgnored that stores the value but does not mark the cache loaded.
FetchedSettingsUncached(resp) == [ignored |-> Truthy(resp), cache |-> FALSE]

\* fetchIgnored, after the await of apiGet: the value stored and returned.
FetchedSettings(resp) == [ignored |-> Truthy(resp), cache |-> TRUE]

\* setIgnored, lines 92-95: the final assignment.
AssignedSettings(v) == [ignored |-> v, cache |-> TRUE]

\* A setIgnored that creates the record whenever v is true.
NeedsCreateAlways(dt, v) == v

\* setIgnored line 78: the condition of the "channels/new" call.
NeedsCreate(dt, v) == ~dt /\ v

\* A setIgnored that deletes the record whenever v is false.
NeedsDeleteAlways(dt, v) == ~v

\* setIgnored line 87: the condition of the "channels/<id>/delete" call.
NeedsDelete(dt, v) == dt /\ ~v

\* The call of caller p ends: its summary becomes the latest one.
SFinish(p, c, ok, ret, post) ==
    /\ sproc' = [SOverlap(p, sproc) EXCEPT ![p] = SIdle]
    /\ slast' = SSummary(c, ok, ret, post)
    /\ slast2' = slast

\* What the step of caller p adds to the record of the calls made so far:
\* when the step ends the call, its outcome.
SRecord(p) ==
    IF sproc'[p].pc = "idle"
    THEN /\ settled' = (settled \/ slast'.ok)
         /\ orderly' = (orderly /\ slast'.ok /\ slast'.solo)
    ELSE UNCHANGED <<settled, orderly>>

\* setIgnored from line 87 on, with dt known and the first `if` done; st is
\* this.settings as it stands while the call is still running.
SetIgnoredTail(p, c, dt, st) ==
    IF NeedsDelete(dt, c.v)
    THEN /\ sproc' = [SOverlap(p, sproc) EXCEPT
                         ![p] = [c EXCEPT !.pc = "apiPutDelete", !.deletes = @ + 1]]
         /\ settings' = st
         /\ UNCHANGED <<slast, slast2>>
    ELSE /\ settings' = AssignedSettings(c.v)
         /\ SFinish(p, c, TRUE, AssignedSettings(c.v), AssignedSettings(c.v))

\* A setIgnored that assigns this.settings before it awaits the create call.
SetIgnoredDecideEager(p, c, dt, st) ==
    IF NeedsCreate(dt, c.v)
    THEN /\ sproc' = [SOverlap(p, sproc) EXCEPT
                         ![p] = [c EXCEPT !.pc = "apiPutNew", !.creates = @ + 1]]
         /\ settings' = AssignedSettings(c.v)
         /\ UNCHANGED <<slast, slast2>>
    ELSE SetIgnoredTail(p, c, dt, st)

\* setIgnored from line 78 on, with the previous value dt known.
SetIgnoredDecide(p, c, dt, st) ==
    IF NeedsCreate(dt, c.v)
    THEN /\ sproc' = [SOverlap(p, sproc) EXCEPT
                         ![p] = [c EXCEPT !.pc = "apiPutNew", !.creates = @ + 1]]
         /\ settings' = st
         /\ UNCHANGED <<slast, slast2>>
    ELSE SetIgnoredTail(p, c, dt, st)

\* fetchIgnored(): issues apiGet({ scope: channels/<id> }) and suspends.
FetchIgnoredCall(p) ==
    /\ sproc[p].pc = "idle"
    /\ sproc' = [SOverlap(p, sproc) EXCEPT
                    ![p] = [SIdle EXCEPT !.pc = "apiGet", !.op = "fetchIgnored",
                                         !.reads = 1, !.solo = SAlone(p),
                                         !.pre = settings]]
    /\ UNCHANGED <<settings, remoteIgnored, slast, slast2, settled, orderly>>
    /\ UNCHANGED hvars

\* setIgnored(v), line 77: this.settings.ignored ?? (await this.fetchIgnored()).
SetIgnoredCall(p) ==
    /\ sproc[p].pc = "idle"
    /\ \E v \in BOOLEAN :
         LET c == [SIdle EXCEPT !.op = "setIgnored", !.v = v, !.solo = SAlone(p),
                                !.pre = settings]
         IN IF IsNullish(settings.ignored)
            THEN /\ sproc' = [SOverlap(p, sproc) EXCEPT
                                 ![p] = [c EXCEPT !.pc = "apiGet", !.reads = 1]]
                 /\ UNCHANGED <<settings, slast, slast2>>
            ELSE SetIgnoredDecide(p, c, settings.ignored, settings)
    /\ SRecord(p)
    /\ UNCHANGED remoteIgnored
    /\ UNCHANGED hvars

\* The apiGet of fetchIgnored answers: lines 63-67, then the caller's
\* continuation (setIgnored line 78 when fetchIgnored was called by it).
ApiGetReturn(p) ==
    /\ sproc[p].pc = "apiGet"
    /\ LET c == [sproc[p] EXCEPT !.seen = remoteIgnored]
           st == FetchedSettings(remoteIgnored)
       IN IF c.op = "fetchIgnored"
          THEN /\ settings' = st
               /\ SFinish(p, c, TRUE, Truthy(remoteIgnored), st)
          ELSE SetIgnoredDecide(p, c, Truthy(remoteIgnored), st)
    /\ settled' = TRUE
    /\ orderly' = (orderly /\ sproc[p].solo)
    /\ UNCHANGED remoteIgnored
    /\ UNCHANGED hvars

\* The apiPut of "channels/new" answers: dt is the response; lines 87-96.
ApiPutNewReturn(p) ==
    /\ sproc[p].pc = "apiPutNew"
    /\ remoteIgnored' = "true"
    /\ \E resp \in BOOLEAN : SetIgnoredTail(p, sproc[p], resp, settings)
    /\ SRecord(p)
    /\ UNCHANGED hvars

\* The apiPut of "channels/<id>/delete" answers: lines 92-96.
ApiPutDeleteReturn(p) ==
    /\ sproc[p].pc = "apiPutDelete"
    /\ remoteIgnored' = "absent"
    /\ settings' = AssignedSettings(sproc[p].v)
    /\ SFinish(p, sproc[p], TRUE, AssignedSettings(sproc[p].v),
               AssignedSettings(sproc[p].v))
    /\ SRecord(p)
    /\ UNCHANGED hvars

\* A pending remote call of the settings API rejects: the await throws, the
\* async function rejects, nothing after the await runs.
ApiReject(p) ==
    /\ sproc[p].pc \in {"apiGet", "apiPutNew", "apiPutDelete"}
    /\ SFinish(p, sproc[p], FALSE, "error", settings)
    /\ SRecord(p)
    /\ UNCHANGED <<settings, remoteIgnored>>
    /\ UNCHANGED hvars

(***************************************************************************)
(* Webhook pool                                                            *)
(***************************************************************************)

\* Strings are sequences of characters.
\* this.client.user.username
Username == <<"B">>

\* `${this.client.user.username}-1` and `${this.client.user.username}-2`
SlotName(slot) == Username \o <<"-", slot>>

\* String.prototype.includes: t occurs in s as a contiguous substring.
Includes(s, t) ==
    \E i \in 0..Len(s) :
        /\ i + Len(t) <= Len(s)
        /\ \A j \in 1..Len(t) : s[i + j] = t[j]

\* String.prototype.endsWith for a one-character suffix.
EndsWith(s, ch) == Len(s) > 0 /\ s[Len(s)] = ch

\* A Webhook: id, channelId, owner.id and name.  The webhooks that exist
\* before the first call: the actor's two pool webhooks, a webhook of another
\* owner that carries the same name, a webhook the actor owns under a name
\* without its username, and a webhook of another channel.
Hook(id, channel, owner, name) ==
    [id |-> id, channelId |-> channel, owner |-> owner, name |-> name]

Own1 == Hook(1, "this", "me", SlotName("1"))
Own2 == Hook(2, "this", "me", SlotName("2"))
Foreign1 == Hook(3, "this", "other", SlotName("1"))
OwnPlain == Hook(4, "this", "me", <<"x", "1">>)
Elsewhere == Hook(5, "elsewhere", "me", SlotName("1"))

\* The value of a null webhook reference; its id stands for the undefined of
\* `this.lastWebhook?.id`.
NullWebhook == Hook(0, "none", "none", <<>>)

\* Ids the remote service gives to the webhooks it creates.
FirstNewId == Elsewhere.id + 1

Ids(seq) == {seq[i].id : i \in 1..Len(seq)}

Elems(seq) == {seq[i] : i \in 1..Len(seq)}

\* Collection.set(w.id, w): overwrite in place, or insert at the end.
CollSet(coll, w) ==
    IF w.id \in Ids(coll)
    THEN [i \in 1..Len(coll) |-> IF coll[i].id = w.id THEN w ELSE coll[i]]
    ELSE Append(coll, w)

\* A write-through that stores only the first webhook of the collection.
SetAllFirst(cache, ws) ==
    IF ws = <<>> THEN cache ELSE CollSet(cache, Head(ws))

\* A write that replaces the cache by the collection.
SetAllReplace(cache, ws) == ws

\* A createWebhooks that returns its collection without writing it.
SetAllNone(cache, ws) == cache

\* webhooks.forEach(w => this.client.webhooksCache.set(w.id, w))
RECURSIVE SetAll(_, _)
SetAll(cache, ws) ==
    IF ws = <<>> THEN cache ELSE SetAll(CollSet(cache, Head(ws)), Tail(ws))

\* createWebhooks line 105: the filter on the fetched webhooks.
IsPoolWebhook(w) == w.owner = "me" /\ Includes(w.name, Username)

PoolOf(fetched) == SelectSeq(fetched, IsPoolWebhook)

\* A lookup that tests only the first webhook of the collection.
HasSlotFirstOnly(ws, slot) == Len(ws) > 0 /\ EndsWith(ws[1].name, slot)

\* createWebhooks lines 106-107: webhooks.find(w => w.name.endsWith(slot))
\* finds something.
HasSlot(ws, slot) == \E i \in 1..Len(ws) : EndsWith(ws[i].name, slot)

\* getWebhook line 125: the webhooks of this channel in the global cache.
OfChannel(cache) == SelectSeq(cache, LAMBDA w : w.channelId = "this")

\* A test that asks for createWebhooks only when the channel has no webhook
\* in the cache.
PoolIncompleteStrict(ws) == Len(ws) < 1

\* getWebhook line 126: createWebhooks is needed.
PoolIncomplete(ws) == Len(ws) <= 1

\* A selection that takes the first webhook whatever lastWebhook is.
SelectionFirst(ws, last) == {Head(ws)}

\* getWebhook line 129: webhook.find(w => this.lastWebhook?.id !== w.id)
\*                      ?? webhook.random(): the webhooks the call may return.
Selection(ws, last) ==
    LET differ == SelectSeq(ws, LAMBDA w : last.id # w.id)
    IN IF differ # <<>> THEN {Head(differ)} ELSE Elems(ws)

\* A getWebhook without the permission test.
MayManageAnyone(perm) == TRUE

\* getWebhook line 124: the Manage Webhooks test lets the call go on.
MayManage(perm) == perm

\* The webhook the remote service creates for a post of the given name.
NewHook(name) ==
    Hook(IF Len(remote) = 0 THEN FirstNewId
         ELSE IF remote[Len(remote)].id < FirstNewId THEN FirstNewId
              ELSE remote[Len(remote)].id + 1,
         "this", "me", name)

HIdle == [pc |-> "idle", op |-> "none", perm |-> TRUE, webhooks |-> <<>>,
          fetched |-> <<>>, lists |-> 0, posts |-> <<>>, made |-> <<>>, solo |-> TRUE,
          preCache |-> <<>>, afterDone |-> FALSE]

\* Summary of a completed call: what it was given (perm), what it saw
\* (preCache: the cache when it started; fetched: the list it was given;
\* last: lastWebhook when it returned), what it did (lists: the list calls it
\* issued; posts: the creation calls it issued; made: the webhooks created
\* for it) and what it left (ret, mapping, postCache, postLast).
HNoCall == [op |-> "none", perm |-> TRUE, ok |-> TRUE, ret |-> NullWebhook,
            mapping |-> <<>>, fetched |-> <<>>, lists |-> 0, posts |-> <<>>,
            made |-> <<>>,
            solo |-> TRUE, preCache |-> <<>>, postCache |-> <<>>,
            last |-> NullWebhook, postLast |-> NullWebhook, afterDone |-> FALSE]

\* What is kept of the call completed before the latest one.
HBrief(h) ==
    [op |-> h.op, perm |-> h.perm, ok |-> h.ok, ret |-> h.ret, solo |-> h.solo,
     preCache |-> h.preCache, made |-> Len(h.made)]

HOverlap(p, f) ==
    [q \in HCallers |-> IF q # p /\ f[q].pc # "idle" THEN [f[q] EXCEPT !.solo = FALSE]
                     ELSE f[q]]

HAlone(p) == \A q \in HCallers \ {p} : hproc[q].pc = "idle"

HSummary(c, ok, ret, mapping, cache, last) ==
    [op |-> c.op, perm |-> c.perm, ok |-> ok, ret |-> ret, mapping |-> mapping,
     fetched |-> c.fetched, lists |-> c.lists, posts |-> c.posts, made |-> c.made,
     solo |-> c.solo,
     preCache |-> c.preCache, postCache |-> cache, last |-> lastWebhook,
     postLast |-> last, afterDone |-> c.afterDone]

\* The call of caller p ends, leaving the given cache and lastWebhook.
HFinish(p, c, ok, ret, mapping, cache, last) ==
    /\ hproc' = [HOverlap(p, hproc) EXCEPT ![p] = HIdle]
    /\ hlast' = HSummary(c, ok, ret, mapping, cache, last)
    /\ hlast2' = HBrief(hlast)
    /\ webhooksCache' = cache
    /\ lastWebhook' = last

\* A call starts: the locals of its caller.
HStart(p, op, perm) ==
    [HIdle EXCEPT !.op = op, !.perm = perm, !.solo = HAlone(p),
                  !.preCache = webhooksCache, !.afterDone = poolDone]

\* fetchWebhooks line 216: webhooks.get() is issued and the call suspends.
IssueList(p, c) ==
    /\ hproc' = [HOverlap(p, hproc) EXCEPT
                    ![p] = [c EXCEPT !.pc = "list", !.lists = @ + 1]]
    /\ UNCHANGED <<remote, webhooksCache, lastWebhook, hlast, hlast2, poolDone>>

\* getWebhook line 124: the call returns null at once.
GetWebhookDenied(p, c) ==
    /\ HFinish(p, c, TRUE, NullWebhook, <<>>, webhooksCache, lastWebhook)
    /\ UNCHANGED <<remote, poolDone>>

\* getWebhook line 129, with the collection the call selects from.
GetWebhookSelect(p, c, ws, cache) ==
    \E w \in Selection(ws, lastWebhook) :
        HFinish(p, c, TRUE, w, ws, cache, lastWebhook)

\* getWebhook(): lines 124-129 up to the first suspension.
GetWebhookCall(p) ==
    /\ hproc[p].pc = "idle"
    /\ \E perm \in BOOLEAN :
         LET c == HStart(p, "getWebhook", perm)
             webhook == OfChannel(webhooksCache)
         IN IF ~MayManage(perm)
            THEN GetWebhookDenied(p, c)
            ELSE IF PoolIncomplete(webhook)
                 THEN IssueList(p, c)
                 ELSE /\ GetWebhookSelect(p, c, webhook, webhooksCache)
                      /\ UNCHANGED <<remote, poolDone>>
    /\ UNCHANGED svars

\* createWebhooks(): line 105 up to the await of fetchWebhooks.
CreateWebhooksCall(p) ==
    /\ hproc[p].pc = "idle"
    /\ IssueList(p, HStart(p, "createWebhooks", TRUE))
    /\ UNCHANGED svars

\* createWebhooks lines 116-117 and, when getWebhook called it, line 129.
PoolReady(p, c) ==
    /\ poolDone' = TRUE
    /\ IF c.op = "getWebhook"
       THEN GetWebhookSelect(p, c, c.webhooks, SetAll(webhooksCache, c.webhooks))
       ELSE HFinish(p, c, TRUE, NullWebhook, c.webhooks,
                    SetAll(webhooksCache, c.webhooks), lastWebhook)

\* webhooks.post({ name }) is issued and the call suspends (lines 109, 113).
IssuePost(p, c, slot) ==
    /\ hproc' = [hproc EXCEPT ![p] = [c EXCEPT !.pc = slot, !.posts = Append(@, slot)]]
    /\ UNCHANGED <<webhooksCache, lastWebhook, hlast, hlast2, poolDone>>

\* createWebhooks line 108 / 112: the slot has no webhook among the fetched
\* pool webhooks (w1 and w2 are both looked up before anything is created).
SlotEmpty(fetched, slot) == ~HasSlot(PoolOf(fetched), slot)

\* webhooks.get() answers: lines 217-219 and 105-108.
ListReturn(p) ==
    /\ hproc[p].pc = "list"
    /\ LET c == [hproc[p] EXCEPT !.fetched = remote, !.webhooks = PoolOf(remote)]
       IN IF SlotEmpty(c.fetched, "1") THEN IssuePost(p, c, "post1")
          ELSE IF SlotEmpty(c.fetched, "2") THEN IssuePost(p, c, "post2")
               ELSE PoolReady(p, c)
    /\ UNCHANGED remote
    /\ UNCHANGED svars

\* webhooks.post for `${username}-1` answers: lines 254, 110 and 112.
Post1Return(p) ==
    /\ hproc[p].pc = "post1"
    /\ LET w1 == NewHook(SlotName("1"))
           c == [hproc[p] EXCEPT !.webhooks = CollSet(@, w1), !.made = Append(@, w1)]
       IN /\ remote' = Append(remote, w1)
          /\ IF SlotEmpty(c.fetched, "2") THEN IssuePost(p, c, "post2")
             ELSE PoolReady(p, c)
    /\ UNCHANGED svars

\* webhooks.post for `${username}-2` answers: lines 254 and 114-117.
Post2Return(p) ==
    /\ hproc[p].pc = "post2"
    /\ LET w2 == NewHook(SlotName("2"))
           c == [hproc[p] EXCEPT !.webhooks = CollSet(@, w2), !.made = Append(@, w2)]
       IN /\ remote' = Append(remote, w2)
          /\ PoolReady(p, c)
    /\ UNCHANGED svars

\* A failure that still writes what the call had collected to the cache.
HookRejectWriting(p) ==
    /\ hproc[p].pc \in {"list", "post1", "post2"}
    /\ HFinish(p, hproc[p], FALSE, NullWebhook, <<>>,
               SetAll(webhooksCache, hproc[p].webhooks), lastWebhook)
    /\ UNCHANGED <<remote, poolDone>>
    /\ UNCHANGED svars

\* A failure that is caught and answered with null.
HookRejectAsNull(p) ==
    /\ hproc[p].pc \in {"list", "post1", "post2"}
    /\ HFinish(p, hproc[p], TRUE, NullWebhook, <<>>, webhooksCache, lastWebhook)
    /\ UNCHANGED <<remote, poolDone>>
    /\ UNCHANGED svars

\* A pending webhooks.get() or webhooks.post() rejects: the await throws and
\* the call rejects; nothing after the await runs.
HookReject(p) ==
    /\ hproc[p].pc \in {"list", "post1", "post2"}
    /\ HFinish(p, hproc[p], FALSE, NullWebhook, <<>>, webhooksCache, lastWebhook)
    /\ UNCHANGED <<remote, poolDone>>
    /\ UNCHANGED svars

\* fetchWebhooks() called on its own: line 216 issues webhooks.get().
FetchWebhooksCall(p) ==
    /\ hproc[p].pc = "idle"
    /\ hproc' = [HOverlap(p, hproc) EXCEPT
                    ![p] = [HStart(p, "fetchWebhooks", TRUE) EXCEPT
                               !.pc = "fetch", !.lists = 1]]
    /\ UNCHANGED <<remote, webhooksCache, lastWebhook, hlast, hlast2, poolDone>>
    /\ UNCHANGED svars

\* webhooks.get() answers a fetchWebhooks called on its own: lines 217-219
\* build the collection and return it.
FetchReturn(p) ==
    /\ hproc[p].pc = "fetch"
    /\ LET c == [hproc[p] EXCEPT !.fetched = remote, !.webhooks = remote]
       IN HFinish(p, c, TRUE, NullWebhook, c.webhooks, webhooksCache, lastWebhook)
    /\ UNCHANGED <<remote, poolDone>>
    /\ UNCHANGED svars

\* String.prototype.startsWith
StartsWith(s, t) == Len(t) <= Len(s) /\ \A j \in 1..Len(t) : s[j] = t[j]

\* The avatar option of createWebhook: left out, a data: URI, or a URL.
Avatars ==
    {[isString |-> FALSE, text |-> <<>>],
     [isString |-> TRUE, text |-> <<"d", "a", "t", "a", ":", "x">>],
     [isString |-> TRUE, text |-> <<"h", "t", "t", "p">>]}

\* createWebhook line 244: the avatar has to be resolved first.
NeedsResolve(avatar) ==
    avatar.isString /\ ~StartsWith(avatar.text, <<"d", "a", "t", "a", ":">>)

\* The name given to createWebhook when it is called on its own.
Snek == <<"S", "n", "e", "k">>

\* The webhooks created, or being created, by createWebhook called on its own.
DirectCreates ==
    Cardinality({i \in 1..Len(remote) : remote[i].name = Snek})
        + Cardinality({q \in HCallers : hproc[q].pc \in {"resolve", "post"}})

\* createWebhook(name, { avatar }) called on its own: lines 244-247 up to the
\* first await.
CreateWebhookCall(p) ==
    /\ hproc[p].pc = "idle"
    /\ DirectCreates < MaxDirectCreates
    /\ \E avatar \in Avatars :
         LET c == HStart(p, "createWebhook", TRUE)
         IN hproc' = [HOverlap(p, hproc) EXCEPT
                         ![p] = IF NeedsResolve(avatar)
                                THEN [c EXCEPT !.pc = "resolve"]
                                ELSE [c EXCEPT !.pc = "post", !.posts = <<"post">>]]
    /\ UNCHANGED <<remote, webhooksCache, lastWebhook, hlast, hlast2, poolDone>>
    /\ UNCHANGED svars

\* DataResolver.resolveImage answers: line 247 issues webhooks.post().
ResolveReturn(p) ==
    /\ hproc[p].pc = "resolve"
    /\ hproc' = [hproc EXCEPT ![p] = [@ EXCEPT !.pc = "post", !.posts = <<"post">>]]
    /\ UNCHANGED <<remote, webhooksCache, lastWebhook, hlast, hlast2, poolDone>>
    /\ UNCHANGED svars

\* webhooks.post() answers a createWebhook called on its own: line 254
\* returns the new Webhook.
PostReturn(p) ==
    /\ hproc[p].pc = "post"
    /\ LET w == NewHook(Snek)
           c == [hproc[p] EXCEPT !.webhooks = <<w>>, !.made = <<w>>]
       IN /\ remote' = Append(remote, w)
          /\ HFinish(p, c, TRUE, w, c.webhooks, webhooksCache, lastWebhook)
    /\ UNCHANGED poolDone
    /\ UNCHANGED svars

\* A pending call of fetchWebhooks or createWebhook called on its own
\* rejects: the await throws and the call rejects.
DirectReject(p) ==
    /\ hproc[p].pc \in {"fetch", "resolve", "post"}
    /\ HFinish(p, hproc[p], FALSE, NullWebhook, <<>>, webhooksCache, lastWebhook)
    /\ UNCHANGED <<remote, poolDone>>
    /\ UNCHANGED svars

\* lastWebhook is a public field (lines 42-46) that nothing in the class
\* assigns: the user of the channel records in it the webhook that the latest
\* getWebhook gave it.
SetLastWebhook ==
    /\ hlast.op = "getWebhook"
    /\ hlast.ret # NullWebhook
    /\ hlast.ret # lastWebhook
    /\ lastWebhook' = hlast.ret
    /\ UNCHANGED <<remote, webhooksCache, hproc, hlast, hlast2, poolDone>>
    /\ UNCHANGED svars

(***************************************************************************)
(* Specifications                                                          *)
(***************************************************************************)

\* The settings of a newly constructed channel; the remote record is
\* whatever it was.
InitSettings ==
    /\ settings = InitialSettings
    /\ remoteIgnored \in RemoteIgnoredValues
    /\ sproc = [p \in SCallers |-> SIdle]
    /\ slast = SNoCall
    /\ slast2 = SNoCall
    /\ settled = FALSE
    /\ orderly = TRUE

\* The webhooks the remote service lists before the first call: none, the
\* complete pool, slot 2 beside a foreign webhook, slot 1 beside a webhook the
\* actor owns under another name.
RemoteLists ==
    {<<>>, <<Own1, Own2>>, <<Foreign1, Own2>>, <<OwnPlain, Own1>>}

\* What the process-wide cache may hold of them when the channel is
\* constructed: nothing, the first of them beside a webhook of another
\* channel, or all of them.
InitialCaches(list) ==
    IF list = <<>> THEN {<<>>}
    ELSE {<<>>, <<Elsewhere, Head(list)>>, list}

\* A newly constructed channel: lastWebhook is null.
InitHooks ==
    /\ remote \in RemoteLists
    /\ webhooksCache \in InitialCaches(remote)
    /\ lastWebhook = NullWebhook
    /\ hproc = [p \in HCallers |-> HIdle]
    /\ hlast = HNoCall
    /\ hlast2 = HBrief(HNoCall)
    /\ poolDone = FALSE

NextSettings ==
    \E p \in SCallers :
        \/ FetchIgnoredCall(p)
        \/ SetIgnoredCall(p)
        \/ ApiGetReturn(p)
        \/ ApiPutNewReturn(p)
        \/ ApiPutDeleteReturn(p)
        \/ ApiReject(p)

NextHooks ==
    \/ \E p \in HCallers :
        \/ GetWebhookCall(p)
        \/ CreateWebhooksCall(p)
        \/ ListReturn(p)
        \/ Post1Return(p)
        \/ Post2Return(p)
        \/ HookReject(p)
    \/ SetLastWebhook

\* createWebhooks, fetchWebhooks and createWebhook, each called on its own.
NextDirect ==
    \E p \in HCallers :
        \/ CreateWebhooksCall(p)
        \/ ListReturn(p)
        \/ Post1Return(p)
        \/ Post2Return(p)
        \/ HookReject(p)
        \/ FetchWebhooksCall(p)
        \/ FetchReturn(p)
        \/ CreateWebhookCall(p)
        \/ ResolveReturn(p)
        \/ PostReturn(p)
        \/ DirectReject(p)

\* The webhook pool while only the settings are used.
HooksUnused ==
    /\ remote = <<>>
    /\ webhooksCache = <<>>
    /\ lastWebhook = NullWebhook
    /\ hproc = [p \in HCallers |-> HIdle]
    /\ hlast = HNoCall
    /\ hlast2 = HBrief(HNoCall)
    /\ poolDone = FALSE

\* The settings while only the webhook pool is used.
SettingsUnused ==
    /\ settings = InitialSettings
    /\ remoteIgnored = "absent"
    /\ sproc = [p \in SCallers |-> SIdle]
    /\ slast = SNoCall
    /\ slast2 = SNoCall
    /\ settled = FALSE
    /\ orderly = TRUE

InitS == InitSettings /\ HooksUnused

Init == InitHooks /\ SettingsUnused

Next == NextHooks

\* The settings cache of a channel whose webhook pool is left alone.
SpecSettings == InitS /\ [][NextSettings]_vars

\* The webhook pool of a channel whose settings are left alone.
Spec == Init /\ [][Next]_vars

SpecDirect == Init /\ [][NextDirect]_vars

\* A new channel of which both the settings and the webhook pool are used,
\* each by one caller.
InitChannel == InitSettings /\ InitHooks

NextChannel ==
    \/ \E p \in {1} :
        \/ FetchIgnoredCall(p)
        \/ SetIgnoredCall(p)
        \/ ApiGetReturn(p)
        \/ ApiPutNewReturn(p)
        \/ ApiPutDeleteReturn(p)
        \/ ApiReject(p)
    \/ \E p \in {"p"} :
        \/ GetWebhookCall(p)
        \/ CreateWebhooksCall(p)
        \/ ListReturn(p)
        \/ Post1Return(p)
        \/ Post2Return(p)
        \/ HookReject(p)

SpecChannel == InitChannel /\ [][NextChannel]_vars

(***************************************************************************)
(* Properties of the settings cache (checked under SpecSettings)           *)
(***************************************************************************)

Loaded(v) == [ignored |-> v, cache |-> TRUE]

\* C3: a successful setIgnored(false) that starts while the cache is Unloaded
\* performs exactly one remote read, and exactly one delete call if and only
\* if that read returned ignored = true.
C3_LazyLoadThenMutate ==
    (slast.op = "setIgnored" /\ ~slast.v /\ slast.ok /\ ~slast.pre.cache)
        => /\ slast.reads = 1
           /\ slast.deletes = (IF slast.seen = "true" THEN 1 ELSE 0)

\* Two setIgnored(true) calls ran one after the other, nothing else running
\* meanwhile, the first starting with the channel not ignored.
TwoSetTrueInARow ==
    /\ slast2.op = "setIgnored" /\ slast2.v /\ slast2.ok /\ slast2.solo
    /\ ~slast2.pre.ignored
    /\ slast.op = "setIgnored" /\ slast.v /\ slast.ok /\ slast.solo

\* C8: two sequential setIgnored(true) calls on a channel that is not ignored
\* issue exactly one create call in total, issued by the first; the second
\* issues no remote mutation; after each the cache is Loaded(true).
C8_IdempotentSet ==
    TwoSetTrueInARow
        => /\ slast2.creates = 1 /\ slast2.deletes = 0
           /\ slast.creates = 0 /\ slast.deletes = 0
           /\ slast2.post = Loaded(TRUE)
           /\ slast.post = Loaded(TRUE)

C8_Witness == TwoSetTrueInARow

\* C9: two setIgnored calls with the same v that are in flight together have
\* issued at most one remote mutation between them.
C9_SerializedSetIgnored ==
    \A p, q \in SCallers :
        (/\ p # q
         /\ sproc[p].op = "setIgnored" /\ sproc[q].op = "setIgnored"
         /\ sproc[p].v = sproc[q].v)
            => sproc[p].creates + sproc[p].deletes
                 + sproc[q].creates + sproc[q].deletes <= 1

\* C10: every fetchIgnored issues exactly one remote read, whatever the cache
\* holds; on success the cache is Loaded(the fetched boolean), whatever was
\* cached, and the fetched boolean is returned.
C10_FreshOverwrite ==
    /\ \A p \in SCallers : sproc[p].op = "fetchIgnored" => sproc[p].reads = 1
    /\ slast.op = "fetchIgnored"
          => /\ slast.reads = 1
             /\ slast.ok => /\ slast.seen \in RemoteIgnoredValues
                            /\ slast.post = Loaded(slast.seen = "true")
                            /\ slast.ret = (slast.seen = "true")

\* A fetchIgnored that replaced a different cached value.
C10_Witness ==
    /\ slast.op = "fetchIgnored" /\ slast.ok
    /\ slast.pre.cache
    /\ slast.pre.ignored # slast.post.ignored

\* C11: a fetchIgnored or setIgnored whose remote call fails ends as a
\* failure and leaves this.settings (ignored and cache) as they were when the
\* call started; a call that runs alone writes nothing to this.settings while
\* one of its remote calls is pending.
C11_FailureAtomicity ==
    /\ \A p \in SCallers :
          (sproc[p].pc # "idle" /\ sproc[p].solo) => settings = sproc[p].pre
    /\ (slast.op # "none" /\ ~slast.ok)
          => /\ slast.ret = "error"
             /\ slast.solo => slast.post = slast.pre

\* A setIgnored on a loaded cache whose remote call failed.
C11_Witness ==
    /\ slast.op = "setIgnored" /\ ~slast.ok /\ slast.solo
    /\ slast.pre.cache
    /\ slast.creates + slast.deletes = 1

\* C12: setIgnored(v) on a cache Loaded(p) issues no read, one create call
\* iff p is false and v true, one delete call iff p is true and v false, no
\* remote call iff p = v; on success the cache is Loaded(v), which is also
\* what the call returns.
C12_TransitionTable ==
    (slast.op = "setIgnored" /\ slast.pre.cache)
        => /\ slast.reads = 0
           /\ slast.creates = (IF ~slast.pre.ignored /\ slast.v THEN 1 ELSE 0)
           /\ slast.deletes = (IF slast.pre.ignored /\ ~slast.v THEN 1 ELSE 0)
           /\ slast.ok => /\ slast.post = Loaded(slast.v)
                          /\ slast.ret = Loaded(slast.v)

\* A setIgnored(false) on a cache Loaded(true) that deleted the record.
C12_Witness ==
    /\ slast.op = "setIgnored" /\ slast.ok /\ ~slast.v
    /\ slast.pre = Loaded(TRUE)
    /\ slast.deletes = 1

\* C13: the cache flag is true exactly when some fetchIgnored or setIgnored
\* has completed successfully, and no step turns it from true to false.
C13_Lifecycle ==
    /\ [](settings.cache <=> settled)
    /\ [][settings.cache => settings'.cache]_vars

\* The cache is still loaded after a call that failed.
C13_Witness ==
    /\ settings.cache
    /\ slast.op # "none" /\ ~slast.ok

\* C20: when every call so far ran alone and succeeded, after each completed
\* call the remote ignored state equals the cached ignored value.
C20_SequentialCoherence ==
    (/\ orderly /\ slast.op # "none"
     /\ \A p \in SCallers : sproc[p].pc = "idle")
        => settings.ignored = Truthy(remoteIgnored)

(***************************************************************************)
(* Properties of the webhook pool (checked under Spec)                     *)
(***************************************************************************)

\* The webhooks of a list that occupy a slot of the pool.
SlotOccupants(list, slot) ==
    {i \in 1..Len(list) : IsPoolWebhook(list[i]) /\ EndsWith(list[i].name, slot)}

\* C1: of two sequential getWebhook calls with the capability, on a channel
\* whose pool in the global cache holds exactly two webhooks, the second
\* returns another webhook than the first.
C1_Rotation ==
    (/\ hlast2.op = "getWebhook" /\ hlast2.perm /\ hlast2.ok /\ hlast2.solo
     /\ Len(OfChannel(hlast2.preCache)) = 2
     /\ hlast.op = "getWebhook" /\ hlast.perm /\ hlast.ok /\ hlast.solo)
        => hlast.ret.id # hlast2.ret.id

\* C2: the remote service never holds more than one pool webhook per slot.
C2_OneWebhookPerSlot ==
    \A slot \in {"1", "2"} : Cardinality(SlotOccupants(remote, slot)) <= 1

\* C4: a getWebhook without the capability returns null without failing,
\* issues no list and no creation, and leaves the global cache and
\* lastWebhook as they were; no call without the capability is ever suspended
\* on a remote call.
C4_PermissionGating ==
    /\ \A p \in HCallers : hproc[p].pc # "idle" => hproc[p].perm
    /\ (hlast.op = "getWebhook" /\ ~hlast.perm)
          => /\ hlast.ok
             /\ hlast.ret = NullWebhook
             /\ hlast.lists = 0
             /\ hlast.made = <<>>
             /\ hlast.postCache = hlast.preCache
             /\ hlast.postLast = hlast.last

\* A getWebhook without the capability on a channel whose pool in the cache
\* is incomplete, so that with the capability it would have listed.
C4_Witness ==
    /\ hlast.op = "getWebhook" /\ ~hlast.perm
    /\ Len(OfChannel(hlast.preCache)) = 1

\* C5: a createWebhooks that starts after a createWebhooks completed
\* successfully creates nothing, whether called directly or by getWebhook;
\* nor does one whose fetched list holds one of the actor's webhooks named
\* `username-1` and one named `username-2`.
C5_Idempotence ==
    /\ \A p \in HCallers :
          (hproc[p].pc # "idle" /\ hproc[p].afterDone)
             => hproc[p].made = <<>> /\ hproc[p].pc = "list"
    /\ (hlast.op # "none" /\ hlast.afterDone) => hlast.made = <<>>
    /\ (/\ hlast.op # "none" /\ hlast.lists = 1
        /\ \A slot \in {"1", "2"} :
              \E i \in 1..Len(hlast.fetched) :
                  /\ hlast.fetched[i].owner = "me"
                  /\ hlast.fetched[i].name = SlotName(slot))
          => hlast.made = <<>>

\* Two sequential createWebhooks calls on a pool that was complete before the
\* first.
C5_Witness ==
    /\ hlast2.op = "createWebhooks" /\ hlast2.ok /\ hlast2.solo /\ hlast2.made = 0
    /\ hlast.op = "createWebhooks" /\ hlast.ok /\ hlast.solo /\ hlast.afterDone

\* The slots, in the order createWebhooks fills them, that have no webhook
\* among those of the list that satisfy the test.
EmptySlots(list, occupies(_)) ==
    SelectSeq(<<"1", "2">>,
              LAMBDA s : ~\E i \in 1..Len(list) :
                             occupies(list[i]) /\ EndsWith(list[i].name, s))

\* A createWebhooks that completed successfully, called directly or by
\* getWebhook.
PoolEnsured == hlast.op # "none" /\ hlast.ok /\ hlast.lists = 1

\* The postcondition of createWebhooks, for a given reading of which fetched
\* webhooks belong to the actor's pool.
CreationPostcondition(mine(_)) ==
    LET need == EmptySlots(hlast.fetched, mine)
        kept == SelectSeq(hlast.fetched, mine)
    IN /\ Len(hlast.made) = Len(need)
       /\ \A i \in 1..Len(need) : hlast.made[i].name = SlotName(need[i])
       /\ \A w \in Elems(hlast.made) \cup Elems(kept) :
             /\ \E i \in 1..Len(hlast.mapping) : hlast.mapping[i] = w
             /\ \E i \in 1..Len(hlast.postCache) : hlast.postCache[i] = w
       /\ HasSlot(hlast.mapping, "1") /\ HasSlot(hlast.mapping, "2")

\* C6 as stated: a successful createWebhooks creates exactly `username-slot`
\* for each slot without an actor-owned occupant in the fetched list, and every
\* created and every fetched actor-owned webhook is in the returned mapping
\* and in the global cache; both slots are occupied in the result.
C6_CreationPostcondition_AsStated ==
    PoolEnsured => CreationPostcondition(LAMBDA w : w.owner = "me")

\* C6 amended: the same, for the fetched webhooks that the actor owns and
\* whose name includes the actor's username.
C6_CreationPostcondition ==
    PoolEnsured => CreationPostcondition(IsPoolWebhook)

\* createWebhooks on an empty channel created username-1 and username-2.
C6_Witness ==
    /\ hlast.op = "createWebhooks" /\ hlast.ok
    /\ hlast.fetched = <<>>
    /\ Len(hlast.made) = 2

\* C7: a getWebhook that returns a webhook has set lastWebhook to it when it
\* returns.
C7_UpdatesLastSelected ==
    (hlast.op = "getWebhook" /\ hlast.ok /\ hlast.ret # NullWebhook)
        => hlast.postLast.id = hlast.ret.id

\* C16: a getWebhook with the capability returns a webhook of this channel
\* out of its candidate collection; its id differs from lastWebhook's
\* whenever the collection holds a webhook with another id, and it is the
\* sole entry when the collection holds lastWebhook only.
C16_SelectionStep ==
    /\ (hlast.op = "getWebhook" /\ hlast.perm /\ hlast.ok)
          => /\ hlast.ret \in Elems(hlast.mapping)
             /\ hlast.ret.channelId = "this"
             /\ (\E w \in Elems(hlast.mapping) : w.id # hlast.last.id)
                   => hlast.ret.id # hlast.last.id
             /\ Elems(hlast.mapping) = {hlast.last} => hlast.ret = hlast.last
    /\ \A w \in {Own1, Own2, Foreign1} : Selection(<<w>>, w) = {w}

\* A getWebhook whose collection held lastWebhook returned another webhook.
C16_Witness ==
    /\ hlast.op = "getWebhook" /\ hlast.perm /\ hlast.ok
    /\ hlast.last \in Elems(hlast.mapping)
    /\ hlast.ret.id # hlast.last.id

\* C17: a getWebhook with the capability calls createWebhooks exactly when
\* the cache held fewer than two webhooks of this channel when it was called;
\* otherwise it issues no remote call and returns one of the webhooks of
\* this channel in the cache.
C17_LazyTrigger ==
    /\ \A p \in HCallers :
          (hproc[p].pc # "idle" /\ hproc[p].op = "getWebhook")
             => /\ hproc[p].lists = 1
                /\ Len(OfChannel(hproc[p].preCache)) < 2
    /\ (hlast.op = "getWebhook" /\ hlast.perm)
          => /\ hlast.lists = 1 <=> Len(OfChannel(hlast.preCache)) < 2
             /\ hlast.lists = 0
                   => /\ hlast.posts = <<>> /\ hlast.made = <<>>
                      /\ hlast.ok
                      /\ hlast.mapping = OfChannel(hlast.preCache)
                      /\ hlast.ret \in Elems(OfChannel(hlast.preCache))

\* A getWebhook called while the cache held exactly one webhook of the
\* channel went through createWebhooks.
C17_Witness ==
    /\ hlast.op = "getWebhook" /\ hlast.perm /\ hlast.ok
    /\ Len(OfChannel(hlast.preCache)) = 1
    /\ hlast.lists = 1

\* C18 as stated: after any getWebhook or createWebhooks that completed
\* without failing, the cache holds at least two webhooks of the channel.
C18_PoolStaysReady_AsStated ==
    (hlast.op \in {"getWebhook", "createWebhooks"} /\ hlast.ok)
        => Len(OfChannel(hlast.postCache)) >= 2

\* C18: once a createWebhooks, or a getWebhook with the capability, has
\* completed without failing, the cache holds at least two webhooks of the
\* channel, and keeps holding them; a getWebhook with the capability that is
\* called afterwards issues no remote call.
C18_PoolStaysReady ==
    /\ []((hlast.op \in {"getWebhook", "createWebhooks"} /\ hlast.ok /\ hlast.perm)
             => Len(OfChannel(hlast.postCache)) >= 2)
    /\ [](poolDone => Len(OfChannel(webhooksCache)) >= 2)
    /\ [][Len(OfChannel(webhooksCache)) >= 2
             => Len(OfChannel(webhooksCache')) >= 2]_vars
    /\ [](\A p \in HCallers :
             (hproc[p].pc # "idle" /\ hproc[p].op = "getWebhook")
                => ~hproc[p].afterDone /\ Len(OfChannel(hproc[p].preCache)) < 2)
    /\ []((/\ hlast.op = "getWebhook" /\ hlast.perm
           /\ (hlast.afterDone \/ Len(OfChannel(hlast.preCache)) >= 2))
             => hlast.lists = 0 /\ hlast.posts = <<>> /\ hlast.ok)

\* A getWebhook with the capability, called after a createWebhooks filled an
\* empty cache, returned a webhook.
C18_Witness ==
    /\ hlast.op = "getWebhook" /\ hlast.perm /\ hlast.afterDone /\ hlast.solo
    /\ hlast2.op = "createWebhooks" /\ hlast2.ok /\ hlast2.preCache = <<>>
    /\ hlast.ret # NullWebhook

\* C19: a createWebhooks that fails, at the list or at either creation,
\* leaves the cache as it was when the call started, and no call writes the
\* cache before it has all its answers; the next call, made after the
\* failure, issues a creation only for the slots that its list shows empty,
\* so that after a failure that had created `username-1` it creates
\* `username-2` alone and each slot has one occupant.
C19_AllOrNothing ==
    /\ \A p \in HCallers :
          (hproc[p].pc # "idle" /\ hproc[p].solo)
             => webhooksCache = hproc[p].preCache
    /\ (hlast.op # "none" /\ ~hlast.ok /\ hlast.solo)
          => hlast.postCache = hlast.preCache
    /\ (/\ hlast2.op # "none" /\ ~hlast2.ok /\ hlast2.solo
        /\ hlast.op # "none" /\ hlast.ok /\ hlast.solo /\ hlast.lists = 1)
          => /\ \A i \in 1..Len(hlast.made) :
                   \E slot \in {"1", "2"} :
                      /\ hlast.made[i].name = SlotName(slot)
                      /\ SlotOccupants(hlast.fetched, slot) = {}
                      /\ Cardinality(SlotOccupants(hlast.fetched \o hlast.made, slot)) = 1
             /\ hlast2.made = 1
                   => /\ hlast.posts = <<"post2">>
                      /\ \A slot \in {"1", "2"} :
                            Cardinality(SlotOccupants(hlast.fetched \o hlast.made,
                                                      slot)) = 1

\* The creation of `username-2` failed after `username-1` was created, and
\* the createWebhooks called next succeeded.
C19_Witness ==
    /\ hlast2.op = "createWebhooks" /\ ~hlast2.ok /\ hlast2.solo /\ hlast2.made = 1
    /\ hlast.op = "createWebhooks" /\ hlast.ok /\ hlast.solo
    /\ Len(hlast.made) = 1

OncePerRemoteCall(c) ==
    /\ c.lists <= 1
    /\ Len(c.posts) <= 2
    /\ \A i, j \in 1..Len(c.posts) : i # j => c.posts[i] # c.posts[j]

\* C15: a call of createWebhooks, getWebhook, fetchIgnored or setIgnored
\* issues each of its remote calls at most once; a remote call that fails is
\* the last one the call issued, and the call then fails; a getWebhook that
\* returns null without failing is one without the capability.
C15_NoRetryPropagation ==
    /\ \A p \in HCallers :
          /\ OncePerRemoteCall(hproc[p])
          /\ hproc[p].pc = "list" => hproc[p].lists = 1 /\ hproc[p].posts = <<>>
          /\ hproc[p].pc \in {"post1", "post2"}
                => /\ Len(hproc[p].posts) = Len(hproc[p].made) + 1
                   /\ hproc[p].posts[Len(hproc[p].posts)] = hproc[p].pc
    /\ OncePerRemoteCall(hlast)
    /\ (hlast.op # "none" /\ hlast.ok) => Len(hlast.posts) = Len(hlast.made)
    /\ (hlast.op # "none" /\ ~hlast.ok)
          => /\ hlast.lists = 1
             /\ \/ hlast.posts = <<>> /\ hlast.made = <<>>
                \/ Len(hlast.posts) = Len(hlast.made) + 1
    /\ (hlast.op = "getWebhook" /\ hlast.ok /\ hlast.ret = NullWebhook)
          => ~hlast.perm /\ hlast.lists = 0
    /\ (hlast.op = "createWebhooks" /\ hlast.ok) => Len(hlast.mapping) >= 2
    /\ \A p \in SCallers :
          /\ sproc[p].reads <= 1
          /\ sproc[p].creates + sproc[p].deletes <= 1
          /\ sproc[p].pc = "apiGet"
                => sproc[p].seen = "unread" /\ sproc[p].creates + sproc[p].deletes = 0
    /\ slast.reads <= 1
    /\ slast.creates + slast.deletes <= 1
    /\ slast.op = "fetchIgnored"
          => /\ slast.reads = 1 /\ slast.creates + slast.deletes = 0
             /\ slast.ok <=> slast.seen # "unread"
    /\ (slast.op # "none" /\ ~slast.ok)
          => /\ slast.ret = "error"
             /\ \/ slast.reads = 1 /\ slast.seen = "unread"
                      /\ slast.creates + slast.deletes = 0
                \/ slast.creates + slast.deletes = 1

\* The creation of `username-2` failed after `username-1` was created, and a
\* remote call of setIgnored failed too.
C15_Witness ==
    /\ hlast.op = "getWebhook" /\ ~hlast.ok
    /\ hlast.posts = <<"post1", "post2">> /\ Len(hlast.made) = 1
    /\ slast.op = "setIgnored" /\ ~slast.ok /\ slast.creates + slast.deletes = 1

====
